---- MODULE Spec2Model ----
(***************************************************************************)
(* Model of related-terms-search (src/main.py): the per-URL pipeline of    *)
(* main (fetch/clean, rank, write), the text cleaning of parse_url, the    *)
(* part-of-speech routing loop of get_top_nvj and the array built by       *)
(* write_to_json.                                                          *)
(*                                                                         *)
(* Characters are one-character strings, a text or a token is a sequence   *)
(* of characters.  Similarity scores are integers (a fixed-point scale of  *)
(* the floats of the embedding library).                                   *)
(***************************************************************************)
EXTENDS Integers, Sequences, FiniteSets, TLC

\* ------------------------------------------------------------------ bounds
MaxUrls == 2      \* URLs given at the prompt
MaxText == 4      \* characters of paragraph text in the cleaning runs
MaxCand == 3      \* candidates returned by the similarity query
MaxTopW == 2      \* result cap top_w in the routing runs
MaxScore == 2     \* similarity scores are 0..MaxScore

VARIABLES
    \* module-level state of main.py and the locals of main
    urls, pos_terms, neg_terms, ui, pc, all_words, top_results, now, path,
    json_data, files, console, calls, writes, exit_status,
    \* locals of get_top_nvj
    sim_words, top_w, j, pos_tags, top_nouns, top_verbs, top_adj, npc,
    \* locals of parse_url
    article_text, processed_article, words, ppc

mainVars == <<urls, pos_terms, neg_terms, ui, pc, all_words, top_results, now,
              path, json_data, files, console, calls, writes, exit_status>>
nvjVars == <<sim_words, top_w, j, pos_tags, top_nouns, top_verbs, top_adj, npc>>
parseVars == <<article_text, processed_article, words, ppc>>
vars == <<mainVars, nvjVars, parseVars>>

\* ------------------------------------------------------------ sequences
RECURSIVE SeqsUpTo(_, _)
SeqsUpTo(S, n) ==
    IF n = 0 THEN {<<>>}
    ELSE LET shorter == SeqsUpTo(S, n - 1)
         IN  shorter \cup {Append(s, x) : s \in {q \in shorter : Len(q) = n - 1}, x \in S}

Take(s, n) == SubSeq(s, 1, IF n < Len(s) THEN n ELSE Len(s))

Range(s) == {s[i] : i \in 1..Len(s)}

\* ------------------------------------------------------------- parse_url
AsciiLower == {"a","b","c","d","e","f","g","h","i","j","k","l","m",
               "n","o","p","q","r","s","t","u","v","w","x","y","z"}
AsciiUpper == {"A","B","C","D","E","F","G","H","I","J","K","L","M",
               "N","O","P","Q","R","S","T","U","V","W","X","Y","Z"}

\* The characters page text is drawn from: letters of both cases, a non-ASCII
\* letter, whitespace and punctuation.
Alphabet == {"a", "t", "c", "A", "T", "É", " ", "."}

\* str.lower() on one character
LowerChar(c) ==
    CASE c = "A" -> "a"
      [] c = "T" -> "t"
      [] c = "C" -> "c"
      [] c = "É" -> "é"
      [] OTHER -> c

\* article_text.lower()
Lower(s) == [i \in 1..Len(s) |-> LowerChar(s[i])]

\* re.sub('[^a-zA-Z]', ' ', s)
SubNonAlpha(s) ==
    [i \in 1..Len(s) |-> IF s[i] \in AsciiLower \cup AsciiUpper THEN s[i] ELSE " "]

\* \s of the regular expression
IsSpace(c) == c \in {" ", "\t", "\n"}

\* re.sub(r'\s+', ' ', s)
RECURSIVE CollapseWs(_)
CollapseWs(s) ==
    IF s = <<>> THEN <<>>
    ELSE IF IsSpace(s[1])
         THEN IF Len(s) > 1 /\ IsSpace(s[2])
              THEN CollapseWs(Tail(s))
              ELSE <<" ">> \o CollapseWs(Tail(s))
         ELSE <<s[1]>> \o CollapseWs(Tail(s))

RECURSIVE RStrip(_)
RStrip(s) ==
    IF s = <<>> THEN <<>>
    ELSE IF IsSpace(s[Len(s)]) THEN RStrip(SubSeq(s, 1, Len(s) - 1)) ELSE s

\* nltk.sent_tokenize on cleaned text: no sentence-ending punctuation is left,
\* so the text is one sentence without its trailing whitespace, and no
\* sentence at all when nothing but whitespace is left.
SentTokenize(s) ==
    IF RStrip(s) = <<>> THEN <<>> ELSE <<RStrip(s)>>

\* nltk.word_tokenize on a sentence of letters and spaces: the maximal runs of
\* letters, in order.
RECURSIVE SplitWords(_, _)
SplitWords(s, cur) ==
    IF s = <<>> THEN (IF cur = <<>> THEN <<>> ELSE <<cur>>)
    ELSE IF IsSpace(s[1])
         THEN (IF cur = <<>> THEN <<>> ELSE <<cur>>) \o SplitWords(Tail(s), <<>>)
         ELSE SplitWords(Tail(s), Append(cur, s[1]))

WordTokenize(sent) == SplitWords(sent, <<>>)

\* stopwords.words('english') and en_model.Defaults.stop_words, restricted to
\* the words the Alphabet can spell.
NltkStopwords == {<<"a">>, <<"t">>, <<"a", "t">>}
SpacyStopwords == {<<"a">>, <<"a", "t">>, <<"c", "a">>}

IsStopword(w) == w \in NltkStopwords \/ w \in SpacyStopwords

\* variant: only the NLTK list is consulted
RemoveStopwords_NltkOnly(ws) ==
    [i \in 1..Len(ws) |-> SelectSeq(ws[i], LAMBDA w : w \notin NltkStopwords)]

RemoveStopwords(ws) ==
    [i \in 1..Len(ws) |-> SelectSeq(ws[i], LAMBDA w : ~IsStopword(w))]

TokenizeAll(s) ==
    LET sents == SentTokenize(s)
    IN  [i \in 1..Len(sents) |-> WordTokenize(sents[i])]

\* parse_url applied to the concatenated paragraph text of a fetched page
ParseUrl(text) ==
    RemoveStopwords(TokenizeAll(CollapseWs(SubNonAlpha(Lower(text)))))

\* ----------------------------------------------------------- get_top_nvj
MinCount == 2     \* Word2Vec(text, min_count=2)
TopN == 100       \* most_similar(..., topn=100)
MainTopW == 12    \* get_top_nvj(all_words, 12)

NounTags == {"NN", "NNP", "NNS"}
VerbTags == {"VB", "VBD", "VBG", "VBN", "VBP", "VBZ"}
AdjTags == {"JJ", "JJR", "JJS"}

\* Tags the tagger is taken to answer with: tracked tags of each class and two
\* untracked ones (an adverb, a plural proper noun).
Tags == {"NN", "NNP", "VB", "VBZ", "JJ", "RB", "NNPS"}

Scores == 0..MaxScore

RECURSIVE Flatten(_)
Flatten(ss) == IF ss = <<>> THEN <<>> ELSE Head(ss) \o Flatten(Tail(ss))

Count(w, s) == Cardinality({i \in 1..Len(s) : s[i] = w})

\* vocabulary of Word2Vec(text, min_count=2): the tokens seen at least twice
Vocab(text) ==
    LET all == Flatten(text)
    IN  {w \in Range(all) : Count(w, all) >= MinCount}

\* seed terms the similarity query cannot find, in query order
MissingTerms(text, pos, neg) ==
    SelectSeq(pos \o neg, LAMBDA w : w \notin Vocab(text))

NonIncreasing(q) == \A a, b \in 1..Len(q) : a < b => q[a][2] >= q[b][2]

\* What most_similar(positive, negative, topn=100) may return: the vocabulary
\* words other than the seed terms, each once, at most topn of them, as
\* (word, score) pairs in non-increasing score order.
SimLists(cands, scores) ==
    LET n == IF Cardinality(cands) < TopN THEN Cardinality(cands) ELSE TopN
    IN  {q \in SeqsUpTo(cands \X scores, n) :
            /\ Len(q) = n
            /\ \A a, b \in 1..n : a # b => q[a][1] # q[b][1]
            /\ NonIncreasing(q)}

\* variant: the caps are tested with <= instead of <
Route_LeqCap(b, c, tag, tw) ==
    IF tag \in NounTags /\ Len(b[1]) <= tw
    THEN <<Append(b[1], <<c[1], c[2], tag>>), b[2], b[3]>>
    ELSE IF tag \in VerbTags /\ Len(b[2]) <= tw
    THEN <<b[1], Append(b[2], <<c[1], c[2], tag>>), b[3]>>
    ELSE IF tag \in AdjTags /\ Len(b[3]) <= tw
    THEN <<b[1], b[2], Append(b[3], <<c[1], c[2], tag>>)>>
    ELSE b

\* variant: the verb branch does not test the tag, so a noun turned away by a
\* full noun bucket falls through into the verb bucket
Route_FallThrough(b, c, tag, tw) ==
    IF tag \in NounTags /\ Len(b[1]) < tw
    THEN <<Append(b[1], <<c[1], c[2], tag>>), b[2], b[3]>>
    ELSE IF Len(b[2]) < tw /\ tag \notin AdjTags
    THEN <<b[1], Append(b[2], <<c[1], c[2], tag>>), b[3]>>
    ELSE IF tag \in AdjTags /\ Len(b[3]) < tw
    THEN <<b[1], b[2], Append(b[3], <<c[1], c[2], tag>>)>>
    ELSE b

\* One iteration of the routing loop (the if/elif chain) on the candidate c
\* tagged tag; b is <<top_nouns, top_verbs, top_adj>>.
Route(b, c, tag, tw) ==
    IF tag \in NounTags /\ Len(b[1]) < tw
    THEN <<Append(b[1], <<c[1], c[2], tag>>), b[2], b[3]>>
    ELSE IF tag \in VerbTags /\ Len(b[2]) < tw
    THEN <<b[1], Append(b[2], <<c[1], c[2], tag>>), b[3]>>
    ELSE IF tag \in AdjTags /\ Len(b[3]) < tw
    THEN <<b[1], b[2], Append(b[3], <<c[1], c[2], tag>>)>>
    ELSE b

RECURSIVE RouteFrom(_, _, _, _, _)
RouteFrom(b, sim, tags, k, tw) ==
    IF k > Len(sim) THEN b
    ELSE RouteFrom(Route(b, sim[k], tags[k], tw), sim, tags, k + 1, tw)

\* get_top_nvj after a successful similarity query
GetTopNvj(sim, tags, tw) == RouteFrom(<<<<>>, <<>>, <<>>>>, sim, tags, 1, tw)

\* --------------------------------------------------------- write_to_json
Markers == <<"NOUNS:", "VERBS:", "ADJECTIVES:">>

\* Elements of the JSON array: a string, a string built from a prefix and the
\* str() of a list, or a list.
JStr(s) == [str |-> s]
JSummary(prefix, terms) == [prefix |-> prefix, terms |-> terms]
JList(l) == [list |-> l]

JEntry(e) == JList(<<[WORD |-> e[1], SIMILARITY |-> e[2], POS |-> e[3]]>>)

RECURSIVE AppendEntries(_, _)
AppendEntries(js, bucket) ==
    IF bucket = <<>> THEN js
    ELSE AppendEntries(Append(js, JEntry(Head(bucket))), Tail(bucket))

\* variant: the marker is written only for a bucket that has entries
AppendMarker_SkipEmpty(js, i, bucket) ==
    IF bucket = <<>> THEN js ELSE Append(js, JStr(Markers[i]))

AppendMarker(js, i, bucket) == Append(js, JStr(Markers[i]))

RECURSIVE BuildFrom(_, _, _)
BuildFrom(js, data, i) ==
    IF i > Len(data) THEN js
    ELSE BuildFrom(AppendEntries(AppendMarker(js, i, data[i]), data[i]), data, i + 1)

\* json_data as write_to_json builds it
BuildJson(data, url, pos, neg) ==
    BuildFrom(<<JStr(url),
                JSummary("POSITIVE WORDS: ", pos),
                JSummary("NEGATIVE WORDS: ", neg)>>, data, 1)

\* -------------------------------------------------------------------- main
\* datetime.now() is counted in seconds from Monday 2021-02-01 00:00:00; the
\* run stays inside that month.
Epoch == [Y |-> 2021, m |-> 2, w |-> 1]

\* the instants datetime.now() is sampled at: two in one minute and the start
\* of the next minute
Times == {0, 30, 60}

\* variant: the format also carries the seconds
Strftime_Seconds(t) ==
    [Y |-> Epoch.Y,
     m |-> Epoch.m,
     w |-> (Epoch.w + (t \div 86400)) % 7,
     H |-> (t \div 3600) % 24,
     M |-> (t \div 60) % 60,
     S |-> t % 60]

\* strftime('%Y-%m-%w_%H-%M'): year, month, weekday number, hour, minute
Strftime(t) ==
    [Y |-> Epoch.Y,
     m |-> Epoch.m,
     w |-> (Epoch.w + (t \div 86400)) % 7,
     H |-> (t \div 3600) % 24,
     M |-> (t \div 60) % 60]

\* "results_{}.json".format(...)
ResultsPath(t) == [prefix |-> "results_", stamp |-> Strftime(t), suffix |-> ".json"]

Tok_cat == <<"c", "a", "t">>
Tok_tat == <<"t", "a", "t">>
Tok_act == <<"a", "c", "t">>

UrlNames == {"u1", "u2"}
PosChoices == {<<Tok_cat>>, <<Tok_act>>}
NegChoices == {<<>>, <<Tok_tat>>}
HttpCodes == {404, 500}

\* similarity scores of the words of the sample pages
PageScores == {1, 2}

\* "Cat tat. cat Tat act act at a" and "cat cat tat"
Page1 == <<"C", "a", "t", " ", "t", "a", "t", ".", " ", "c", "a", "t", " ", "T", "a", "t", " ", "a", "c", "t", " ", "a", "c", "t", " ", "a", "t", " ", "a">>
Page2 == <<"c", "a", "t", " ", "c", "a", "t", " ", "t", "a", "t">>
PageTexts == {Page1, Page2}

\* nltk.pos_tag on the words of the sample pages
PosTagSample(w) ==
    CASE w = Tok_cat -> "NN"
      [] w = Tok_tat -> "JJ"
      [] w = Tok_act -> "VB"
      [] OTHER -> "RB"

Say(msg, args) == [msg |-> msg, args |-> args]

\* state after the three prompts, before main()
InitMain ==
    /\ urls \in SeqsUpTo(UrlNames, MaxUrls)
    /\ pos_terms \in PosChoices
    /\ neg_terms \in NegChoices
    /\ ui = 1
    /\ pc = "fetch"
    /\ all_words = <<>>
    /\ top_results = <<<<>>, <<>>, <<>>>>
    /\ now = 0
    /\ path = ResultsPath(0)
    /\ json_data = <<>>
    /\ files = <<>>
    /\ console = <<>>
    /\ calls = <<>>
    /\ writes = <<>>
    /\ exit_status = -1

IdleNvj ==
    /\ sim_words = <<>>
    /\ top_w = 0
    /\ j = 0
    /\ pos_tags = <<>>
    /\ top_nouns = <<>>
    /\ top_verbs = <<>>
    /\ top_adj = <<>>
    /\ npc = "idle"

IdleParse ==
    /\ article_text = <<>>
    /\ processed_article = <<>>
    /\ words = <<>>
    /\ ppc = "idle"

Init == InitMain /\ IdleNvj /\ IdleParse

\* print(u); all_words = parse_url(u) returns
FetchOk ==
    /\ pc = "fetch" /\ ui <= Len(urls)
    /\ \E text \in PageTexts : all_words' = ParseUrl(text)
    /\ console' = Append(console, Say("url", <<urls[ui]>>))
    /\ calls' = Append(calls, <<"parse_url", ui>>)
    /\ pc' = "rank"
    /\ UNCHANGED <<urls, pos_terms, neg_terms, ui, top_results, now, path,
                   json_data, files, writes, exit_status>>
    /\ UNCHANGED <<nvjVars, parseVars>>

\* variant: the except clause lacks its continue
FetchHttpError_NoContinue ==
    /\ pc = "fetch" /\ ui <= Len(urls)
    /\ \E code \in HttpCodes :
          console' = console \o <<Say("url", <<urls[ui]>>),
                                  Say("HTTP Error", <<code, urls[ui]>>)>>
    /\ calls' = Append(calls, <<"parse_url HTTPError", ui>>)
    /\ pc' = "rank"
    /\ UNCHANGED <<urls, pos_terms, neg_terms, ui, all_words, top_results, now, path,
                   json_data, files, writes, exit_status>>
    /\ UNCHANGED <<nvjVars, parseVars>>

\* parse_url raises urllib.error.HTTPError: except ... print; continue
FetchHttpError ==
    /\ pc = "fetch" /\ ui <= Len(urls)
    /\ \E code \in HttpCodes :
          console' = console \o <<Say("url", <<urls[ui]>>),
                                  Say("HTTP Error", <<code, urls[ui]>>)>>
    /\ calls' = Append(calls, <<"parse_url HTTPError", ui>>)
    /\ ui' = ui + 1
    /\ pc' = "fetch"
    /\ UNCHANGED <<urls, pos_terms, neg_terms, all_words, top_results, now, path,
                   json_data, files, writes, exit_status>>
    /\ UNCHANGED <<nvjVars, parseVars>>

\* parse_url raises something else (urllib.error.URLError for an unreachable
\* host): no except clause matches, the interpreter prints a traceback and
\* exits with status 1
FetchOtherError ==
    /\ pc = "fetch" /\ ui <= Len(urls)
    /\ console' = console \o <<Say("url", <<urls[ui]>>), Say("Traceback", <<"URLError">>)>>
    /\ calls' = Append(calls, <<"parse_url URLError", ui>>)
    /\ pc' = "crashed"
    /\ exit_status' = 1
    /\ UNCHANGED <<urls, pos_terms, neg_terms, ui, all_words, top_results, now, path,
                   json_data, files, writes>>
    /\ UNCHANGED <<nvjVars, parseVars>>

\* variant: main goes to the next URL without calling write_to_json
RankOk_SkipWrite ==
    /\ pc = "rank"
    /\ MissingTerms(all_words, pos_terms, neg_terms) = <<>>
    /\ \E sim \in SimLists(Vocab(all_words) \ Range(pos_terms \o neg_terms), PageScores) :
          top_results' = GetTopNvj(sim, [k \in 1..Len(sim) |-> PosTagSample(sim[k][1])], MainTopW)
    /\ console' = Append(console, Say("TOP RESULTS", <<urls[ui], top_results'>>))
    /\ calls' = Append(calls, <<"get_top_nvj", ui>>)
    /\ ui' = ui + 1
    /\ pc' = "fetch"
    /\ UNCHANGED <<urls, pos_terms, neg_terms, all_words, now, path,
                   json_data, files, writes, exit_status>>
    /\ UNCHANGED <<nvjVars, parseVars>>

\* get_top_nvj returns; main prints the top results
RankOk ==
    /\ pc = "rank"
    /\ MissingTerms(all_words, pos_terms, neg_terms) = <<>>
    /\ \E sim \in SimLists(Vocab(all_words) \ Range(pos_terms \o neg_terms), PageScores) :
          top_results' = GetTopNvj(sim, [k \in 1..Len(sim) |-> PosTagSample(sim[k][1])], MainTopW)
    /\ console' = Append(console, Say("TOP RESULTS", <<urls[ui], top_results'>>))
    /\ calls' = Append(calls, <<"get_top_nvj", ui>>)
    /\ pc' = "write"
    /\ UNCHANGED <<urls, pos_terms, neg_terms, ui, all_words, now, path,
                   json_data, files, writes, exit_status>>
    /\ UNCHANGED <<nvjVars, parseVars>>

\* variant: the except clause prints and lets main go on to the next URL
RankKeyError_Continue ==
    /\ pc = "rank"
    /\ MissingTerms(all_words, pos_terms, neg_terms) # <<>>
    /\ console' = Append(console,
           Say("ERROR! keyword not recognized", <<Head(MissingTerms(all_words, pos_terms, neg_terms))>>))
    /\ calls' = Append(calls, <<"get_top_nvj", ui>>)
    /\ ui' = ui + 1
    /\ pc' = "fetch"
    /\ UNCHANGED <<urls, pos_terms, neg_terms, all_words, top_results, now, path,
                   json_data, files, writes, exit_status>>
    /\ UNCHANGED <<nvjVars, parseVars>>

\* most_similar raises KeyError: except KeyError ... print; exit(1)
RankKeyError ==
    /\ pc = "rank"
    /\ MissingTerms(all_words, pos_terms, neg_terms) # <<>>
    /\ console' = Append(console,
           Say("ERROR! keyword not recognized", <<Head(MissingTerms(all_words, pos_terms, neg_terms))>>))
    /\ calls' = Append(calls, <<"get_top_nvj", ui>>)
    /\ pc' = "exit"
    /\ exit_status' = 1
    /\ UNCHANGED <<urls, pos_terms, neg_terms, ui, all_words, top_results, now, path,
                   json_data, files, writes>>
    /\ UNCHANGED <<nvjVars, parseVars>>

\* path = "results_{}.json".format(datetime.now()...); write_to_json(path, ...)
\* with open() succeeding: json.dump replaces the file's content
WriteOk ==
    /\ pc = "write"
    /\ \E t \in Times : t >= now /\ now' = t
    /\ path' = ResultsPath(now')
    /\ json_data' = BuildJson(top_results, urls[ui], pos_terms, neg_terms)
    /\ files' = (path' :> json_data') @@ files
    /\ console' = Append(console, Say("Successfully wrote data", <<path'>>))
    /\ calls' = Append(calls, <<"write_to_json", ui>>)
    /\ writes' = Append(writes, [u |-> ui, t |-> now', path |-> path', doc |-> json_data'])
    /\ ui' = ui + 1
    /\ pc' = "fetch"
    /\ UNCHANGED <<urls, pos_terms, neg_terms, all_words, top_results, exit_status>>
    /\ UNCHANGED <<nvjVars, parseVars>>

\* open() raises FileNotFoundError: the except clause prints, then the finally
\* clause evaluates f.close() with f never bound; the UnboundLocalError leaves
\* write_to_json and main uncaught
WriteFileNotFound ==
    /\ pc = "write"
    /\ \E t \in Times : t >= now /\ now' = t
    /\ path' = ResultsPath(now')
    /\ json_data' = BuildJson(top_results, urls[ui], pos_terms, neg_terms)
    /\ console' = console \o <<Say("ERROR! File not found", <<path'>>),
                               Say("Traceback", <<"UnboundLocalError">>)>>
    /\ calls' = Append(calls, <<"write_to_json", ui>>)
    /\ pc' = "crashed"
    /\ exit_status' = 1
    /\ UNCHANGED <<urls, pos_terms, neg_terms, ui, all_words, top_results, files,
                   writes>>
    /\ UNCHANGED <<nvjVars, parseVars>>

\* open() raises another OSError (PermissionError): no except clause matches,
\* the finally clause raises UnboundLocalError in its place
WriteOpenDenied ==
    /\ pc = "write"
    /\ \E t \in Times : t >= now /\ now' = t
    /\ path' = ResultsPath(now')
    /\ json_data' = BuildJson(top_results, urls[ui], pos_terms, neg_terms)
    /\ console' = Append(console, Say("Traceback", <<"UnboundLocalError">>))
    /\ calls' = Append(calls, <<"write_to_json", ui>>)
    /\ pc' = "crashed"
    /\ exit_status' = 1
    /\ UNCHANGED <<urls, pos_terms, neg_terms, ui, all_words, top_results, files,
                   writes>>
    /\ UNCHANGED <<nvjVars, parseVars>>

\* the for loop is exhausted: main returns and the interpreter exits normally
Finish ==
    /\ pc = "fetch" /\ ui > Len(urls)
    /\ pc' = "done"
    /\ exit_status' = 0
    /\ UNCHANGED <<urls, pos_terms, neg_terms, ui, all_words, top_results, now, path,
                   json_data, files, console, calls, writes>>
    /\ UNCHANGED <<nvjVars, parseVars>>

Next ==
    \/ FetchOk
    \/ FetchHttpError
    \/ FetchOtherError
    \/ RankOk
    \/ RankKeyError
    \/ WriteOk
    \/ WriteFileNotFound
    \/ WriteOpenDenied
    \/ Finish

Spec == Init /\ [][Next]_vars

\* ------------------------------------------- get_top_nvj, step by step
\* One call of get_top_nvj after its similarity query returned sim_words,
\* followed by write_to_json building json_data from the returned triple.
\* The words of sim_words are numbered by rank (the query returns each word
\* once); pos_tags records the tag the tagger gave each candidate so far.
InitNvj ==
    /\ urls = <<"u1">>
    /\ pos_terms = <<Tok_cat>>
    /\ neg_terms = <<Tok_tat>>
    /\ ui = 1
    /\ pc = "rank"
    /\ all_words = <<>>
    /\ top_results = <<<<>>, <<>>, <<>>>>
    /\ now = 0
    /\ path = ResultsPath(0)
    /\ json_data = <<>>
    /\ files = <<>>
    /\ console = <<>>
    /\ calls = <<>>
    /\ writes = <<>>
    /\ exit_status = -1
    /\ sim_words \in {q \in SeqsUpTo((1..MaxCand) \X Scores, MaxCand) :
                        /\ \A k \in 1..Len(q) : q[k][1] = k
                        /\ NonIncreasing(q)}
    /\ top_w \in 0..MaxTopW
    /\ j = 0
    /\ pos_tags = <<>>
    /\ top_nouns = <<>>
    /\ top_verbs = <<>>
    /\ top_adj = <<>>
    /\ npc = "loop"
    /\ IdleParse

\* one iteration of for j in range(len(sim_words))
NvjIterate ==
    /\ npc = "loop" /\ j < Len(sim_words)
    /\ \E tag \in Tags :
          /\ pos_tags' = Append(pos_tags, tag)
          /\ LET b == Route(<<top_nouns, top_verbs, top_adj>>, sim_words[j + 1], tag, top_w)
             IN  /\ top_nouns' = b[1]
                 /\ top_verbs' = b[2]
                 /\ top_adj' = b[3]
    /\ j' = j + 1
    /\ UNCHANGED <<sim_words, top_w, npc, mainVars, parseVars>>

\* return [top_nouns, top_verbs, top_adj]
NvjReturn ==
    /\ npc = "loop" /\ j = Len(sim_words)
    /\ top_results' = <<top_nouns, top_verbs, top_adj>>
    /\ npc' = "returned"
    /\ pc' = "write"
    /\ UNCHANGED <<urls, pos_terms, neg_terms, ui, all_words, now, path, json_data,
                   files, console, calls, writes, exit_status>>
    /\ UNCHANGED <<sim_words, top_w, j, pos_tags, top_nouns, top_verbs, top_adj>>
    /\ UNCHANGED parseVars

\* write_to_json builds json_data from the returned triple
NvjBuildJson ==
    /\ npc = "returned"
    /\ json_data' = BuildJson(top_results, urls[ui], pos_terms, neg_terms)
    /\ npc' = "built"
    /\ UNCHANGED <<urls, pos_terms, neg_terms, ui, pc, all_words, top_results, now,
                   path, files, console, calls, writes, exit_status>>
    /\ UNCHANGED <<sim_words, top_w, j, pos_tags, top_nouns, top_verbs, top_adj>>
    /\ UNCHANGED parseVars

NextNvj ==
    \/ NvjIterate
    \/ NvjReturn
    \/ NvjBuildJson

SpecNvj == InitNvj /\ [][NextNvj]_vars

\* --------------------------------------------- parse_url, step by step
\* The cleaning of one page's paragraph text, one statement per step.
InitParse ==
    /\ InitMain
    /\ urls = <<"u1">>
    /\ pos_terms = <<Tok_cat>>
    /\ neg_terms = <<>>
    /\ IdleNvj
    /\ article_text \in SeqsUpTo(Alphabet, MaxText)
    /\ processed_article = <<>>
    /\ words = <<>>
    /\ ppc = "lower"

\* processed_article = article_text.lower()
ParseLower ==
    /\ ppc = "lower"
    /\ processed_article' = Lower(article_text)
    /\ ppc' = "sub"
    /\ UNCHANGED <<article_text, words, mainVars, nvjVars>>

\* processed_article = re.sub('[^a-zA-Z]', ' ', processed_article)
ParseSubNonAlpha ==
    /\ ppc = "sub"
    /\ processed_article' = SubNonAlpha(processed_article)
    /\ ppc' = "collapse"
    /\ UNCHANGED <<article_text, words, mainVars, nvjVars>>

\* processed_article = re.sub(r'\s+', ' ', processed_article)
ParseCollapseWs ==
    /\ ppc = "collapse"
    /\ processed_article' = CollapseWs(processed_article)
    /\ ppc' = "tokenize"
    /\ UNCHANGED <<article_text, words, mainVars, nvjVars>>

\* all_sentences = nltk.sent_tokenize(...); words = [nltk.word_tokenize(sent) ...]
ParseTokenize ==
    /\ ppc = "tokenize"
    /\ words' = TokenizeAll(processed_article)
    /\ ppc' = "stopwords"
    /\ UNCHANGED <<article_text, processed_article, mainVars, nvjVars>>

\* the stopword loop, then return words
ParseRemoveStopwords ==
    /\ ppc = "stopwords"
    /\ words' = RemoveStopwords(words)
    /\ ppc' = "returned"
    /\ UNCHANGED <<article_text, processed_article, mainVars, nvjVars>>

NextParse ==
    \/ ParseLower
    \/ ParseSubNonAlpha
    \/ ParseCollapseWs
    \/ ParseTokenize
    \/ ParseRemoveStopwords

SpecParse == InitParse /\ [][NextParse]_vars

\* ------------------------------------------------------------ properties
Last(s) == s[Len(s)]

Called(op, u) == \E i \in 1..Len(calls) : calls[i] = <<op, u>>

CallCount(op, u) == Cardinality({i \in 1..Len(calls) : calls[i] = <<op, u>>})

Logged(msg) == \E i \in 1..Len(console) : console[i].msg = msg

\* C1: when the fetch of a URL raises an HTTP error, the status code and the
\* URL are printed, no file is created or changed, the loop moves to the next
\* URL, and get_top_nvj and write_to_json are never called for that URL.
C1_HttpErrorSkipsUrl ==
    [][/\ (calls' # calls /\ Last(calls') = <<"parse_url HTTPError", ui>>) =>
             /\ Last(console').msg = "HTTP Error"
             /\ Last(console').args[1] \in HttpCodes
             /\ Last(console').args[2] = urls[ui]
             /\ files' = files
             /\ writes' = writes
             /\ ui' = ui + 1
             /\ pc' = "fetch"
             /\ exit_status' = -1
       /\ \A i \in 1..Len(calls') :
             calls'[i][1] = "parse_url HTTPError" =>
                \A k \in 1..Len(calls') :
                   calls'[k][2] = calls'[i][2] =>
                      calls'[k][1] \notin {"get_top_nvj", "write_to_json"}]_vars

\* C1 witness: the first URL failed with an HTTP error and the second URL was
\* then fetched and written.
C1_Witness ==
    /\ Called("parse_url HTTPError", 1)
    /\ Called("write_to_json", 2)
    /\ pc = "done"

\* C2: when a seed term is missing from the vocabulary, get_top_nvj prints an
\* error and the process ends there with status 1: no file is written or
\* changed, the URL index does not move, and no step follows the exit.
C2_VocabularyErrorExits ==
    [][/\ (pc = "rank" /\ MissingTerms(all_words, pos_terms, neg_terms) # <<>>) =>
             /\ pc' = "exit"
             /\ exit_status' = 1
             /\ Last(console').msg = "ERROR! keyword not recognized"
             /\ Len(console') = Len(console) + 1
             /\ files' = files
             /\ writes' = writes
             /\ ui' = ui
             /\ ~ \E i \in 1..Len(calls') : calls'[i] = <<"write_to_json", ui>>
       /\ (pc = "exit" => UNCHANGED vars)]_vars

\* C2 witness: the process exited on a vocabulary error of the second URL,
\* after the first URL's file was written.
C2_Witness ==
    /\ pc = "exit"
    /\ exit_status = 1
    /\ ui = 2
    /\ Len(writes) = 1
    /\ files # <<>>

\* C2 second case: the exit happened with a later URL still unprocessed.
C2_LaterUrlPending ==
    /\ pc = "exit"
    /\ ui < Len(urls)

\* C3 (as stated): when open() fails in write_to_json and the failure is
\* logged, write_to_json returns and main goes on to the next URL.
C3_OpenFailureContinues ==
    [][(Len(console') > Len(console) /\
        \E i \in (Len(console) + 1)..Len(console') :
            console'[i].msg = "ERROR! File not found") =>
          /\ pc' = "fetch"
          /\ ui' = ui + 1
          /\ exit_status' = -1]_vars

\* C5 (as stated): the process ends with status 1 exactly when a vocabulary
\* error was reported; otherwise every URL was handled and the status is 0.
C5_ExitStatus ==
    exit_status # -1 =>
        IF Logged("ERROR! keyword not recognized")
        THEN exit_status = 1
        ELSE exit_status = 0 /\ ui = Len(urls) + 1

\* C6: in a run not ended by a vocabulary error, write_to_json is called once
\* for each URL whose fetch succeeded and never for another URL; the calls of
\* one URL are parse_url, get_top_nvj, write_to_json in that order with no
\* call for another URL between them, and URLs are taken in list order.
C6_OneResultPerFetchedUrl ==
    /\ \A i \in 1..Len(calls) :
          /\ calls[i][2] \in 1..Len(urls)
          /\ (i > 1 => calls[i - 1][2] <= calls[i][2])
          /\ (calls[i][1] \in {"parse_url", "parse_url HTTPError", "parse_url URLError"} =>
                (i > 1 => calls[i - 1][2] < calls[i][2]))
          /\ (calls[i][1] = "get_top_nvj" =>
                i > 1 /\ calls[i - 1] = <<"parse_url", calls[i][2]>>)
          /\ (calls[i][1] = "write_to_json" =>
                i > 1 /\ calls[i - 1] = <<"get_top_nvj", calls[i][2]>>)
    /\ (pc \in {"done", "crashed"} =>
          \A u \in 1..Len(urls) :
             CallCount("write_to_json", u) = IF Called("parse_url", u) THEN 1 ELSE 0)
    /\ (pc = "done" =>
          \A u \in 1..Len(urls) : Called("parse_url", u) \/ Called("parse_url HTTPError", u))

\* C6 witness: a finished run in which the first URL failed to fetch and the
\* second was fetched, ranked and written.
C6_Witness ==
    /\ pc = "done"
    /\ Len(urls) = 2
    /\ calls = <<<<"parse_url HTTPError", 1>>, <<"parse_url", 2>>,
                 <<"get_top_nvj", 2>>, <<"write_to_json", 2>>>>

SameMinute(t1, t2) == t1 \div 60 = t2 \div 60

\* C7: two writes made within the same minute go to the same path whatever
\* their URLs, the file then holds exactly the later write's document, whose
\* first element is the later URL, and nothing but the success line was
\* printed for the write.
C7_SameMinuteOverwrites ==
    /\ \A a, b \in 1..Len(writes) :
          (a < b /\ SameMinute(writes[a].t, writes[b].t)) =>
             /\ writes[a].path = writes[b].path
             /\ (b = Len(writes) =>
                   /\ files[writes[b].path] = writes[b].doc
                   /\ files[writes[b].path][1] = JStr(urls[writes[b].u]))
    /\ (pc \in {"fetch", "rank", "write", "done"} =>
          /\ ~Logged("Traceback")
          /\ ~Logged("ERROR! File not found"))
    /\ Cardinality({i \in 1..Len(console) : console[i].msg = "Successfully wrote data"})
          = Len(writes)

\* C7 witness: two different URLs were written in the same minute and the
\* file holds the second one's document only.
C7_Witness ==
    /\ Len(writes) = 2
    /\ SameMinute(writes[1].t, writes[2].t)
    /\ writes[1].t # writes[2].t
    /\ urls[writes[1].u] # urls[writes[2].u]
    /\ writes[1].doc # writes[2].doc
    /\ DOMAIN files = {writes[2].path}
    /\ files[writes[2].path] = writes[2].doc

Buckets == <<top_nouns, top_verbs, top_adj>>

\* C4: after every iteration of the routing loop (and at return) each bucket
\* holds at most top_w entries and its similarity scores never increase from
\* one entry to the next.
C4_BucketsCappedAndRanked ==
    \A b \in 1..3 :
        /\ Len(Buckets[b]) <= top_w
        /\ \A x, y \in 1..Len(Buckets[b]) :
              x < y => Buckets[b][x][2] >= Buckets[b][y][2]

\* C4 witness: the loop has run over three candidates of distinct scores, the
\* noun bucket is full with two of them and a further noun was turned away.
C4_Witness ==
    /\ npc = "loop"
    /\ j = 3
    /\ top_w = 2
    /\ Len(top_nouns) = 2
    /\ top_nouns[1][2] > top_nouns[2][2]
    /\ pos_tags[3] \in {"NN", "NNP", "NNS"}

\* the candidates seen so far with the tag each was given
Tagged == [k \in 1..j |-> <<sim_words[k][1], sim_words[k][2], pos_tags[k]>>]

\* C10: every bucket holds only candidates of its own tag class, no candidate
\* is in two buckets, and each bucket is exactly the first top_w candidates of
\* its class in ranked order (among those seen so far, hence among all at
\* return); a candidate with an untracked tag is in no bucket.
C10_BucketsAreClassPrefixes ==
    LET nounTags == {"NN", "NNP", "NNS"}
        verbTags == {"VB", "VBD", "VBG", "VBN", "VBP", "VBZ"}
        adjTags == {"JJ", "JJR", "JJS"}
        OfClass(T) == SelectSeq(Tagged, LAMBDA e : e[3] \in T)
    IN  /\ top_nouns = Take(OfClass(nounTags), top_w)
        /\ top_verbs = Take(OfClass(verbTags), top_w)
        /\ top_adj = Take(OfClass(adjTags), top_w)
        /\ \A a, b \in 1..3 : \A x \in 1..Len(Buckets[a]) : \A y \in 1..Len(Buckets[b]) :
              (a # b \/ x # y) => Buckets[a][x][1] # Buckets[b][y][1]
        /\ \A k \in 1..j :
              pos_tags[k] \notin nounTags \cup verbTags \cup adjTags =>
                 \A b \in 1..3 : \A x \in 1..Len(Buckets[b]) : Buckets[b][x][1] # sim_words[k][1]
        /\ (npc \in {"returned", "built"} => j = Len(sim_words) /\ top_results = Buckets)

\* C10 witness: with top_w = 1 the noun bucket filled on the first candidate,
\* the second noun was dropped, and the verb after it was still taken.
C10_Witness ==
    /\ npc = "returned"
    /\ top_w = 1
    /\ pos_tags = <<"NN", "NNP", "VBZ">>
    /\ Len(top_nouns) = 1 /\ top_nouns[1][1] = 1
    /\ Len(top_verbs) = 1 /\ top_verbs[1][1] = 3
    /\ top_adj = <<>>

\* C8: the array built by write_to_json is the URL, the two seed-term
\* summaries, then for nouns, verbs and adjectives in turn the marker followed
\* by one single-element list per entry in bucket order; its length is 6 plus
\* the number of entries and every marker is present.
C8_JsonLayout ==
    npc = "built" =>
        LET n1 == Len(top_results[1])
            n2 == Len(top_results[2])
            n3 == Len(top_results[3])
            Obj(e) == [WORD |-> e[1], SIMILARITY |-> e[2], POS |-> e[3]]
            Wrapped(x, e) == DOMAIN x = {"list"} /\ x.list = <<Obj(e)>>
            IsStr(x, str) == DOMAIN x = {"str"} /\ x.str = str
        IN  /\ Len(json_data) = 6 + n1 + n2 + n3
            /\ IsStr(json_data[1], urls[ui])
            /\ json_data[2] = [prefix |-> "POSITIVE WORDS: ", terms |-> pos_terms]
            /\ json_data[3] = [prefix |-> "NEGATIVE WORDS: ", terms |-> neg_terms]
            /\ IsStr(json_data[4], "NOUNS:")
            /\ \A k \in 1..n1 : Wrapped(json_data[4 + k], top_results[1][k])
            /\ IsStr(json_data[5 + n1], "VERBS:")
            /\ \A k \in 1..n2 : Wrapped(json_data[5 + n1 + k], top_results[2][k])
            /\ IsStr(json_data[6 + n1 + n2], "ADJECTIVES:")
            /\ \A k \in 1..n3 : Wrapped(json_data[6 + n1 + n2 + k], top_results[3][k])

\* C8 witness: an array was built from a triple with two nouns, no verb and
\* one adjective.
C8_Witness ==
    /\ npc = "built"
    /\ Len(top_results[1]) = 2
    /\ top_results[2] = <<>>
    /\ Len(top_results[3]) = 1
    /\ Len(json_data) = 9

\* C9: every token of every sentence parse_url returns is non-empty, made of
\* the letters a-z only, and in neither stopword set.
C9_CleanTokens ==
    ppc = "returned" =>
        \A s \in 1..Len(words) : \A k \in 1..Len(words[s]) :
            LET w == words[s][k]
            IN  /\ w # <<>>
                /\ \A i \in 1..Len(w) : w[i] \in AsciiLower
                /\ w \notin NltkStopwords
                /\ w \notin SpacyStopwords

\* C9 witness: "T.tA" was cleaned: lowercased, the full stop made a space, the
\* stopword "t" removed and the token "ta" kept.
C9_Witness ==
    /\ ppc = "returned"
    /\ article_text = <<"T", ".", "t", "A">>
    /\ words = << << <<"t", "a">> >> >>

====
